---- MODULE Spec2Model ----
(***************************************************************************)
(* A model of pvtools (src/pvtools.py): the Sequence class, which derives   *)
(* the exon and CDS interval tables of a transcript, annotates every base   *)
(* and lifts every base over to coding-DNA ("c.") notation, and the         *)
(* LookupTable class, which puts these columns side by side.                *)
(*                                                                         *)
(* A Sequence is immutable: it is len (the number of bases) and data (the   *)
(* metadata of the JSON file).  The state of the model is one Sequence and  *)
(* its caller: the method the caller has called, the arguments of the call  *)
(* and what the call returned or raised, until the caller drops the result  *)
(* and is free to call again.                                               *)
(***************************************************************************)
EXTENDS Integers, Sequences, FiniteSets

VARIABLES
    len,     \* Sequence.len = len(Sequence.seq)
    data,    \* Sequence.data: ExonCount, ExonStarts, ExonEnds, CDSStarts, CDSEnds
    op,      \* the method called ("new": none since construction or the last drop)
    args,    \* the arguments of that call
    result   \* what it returned or raised: [err, msg, df, out] (err = "": it returned)

vars == <<len, data, op, args, result>>

(***************************************************************************)
(* Bounds of the model.                                                     *)
(***************************************************************************)
MaxLen == 6          \* longest sequence with well-formed metadata
MaxLenAny == 3       \* longest sequence with unvalidated metadata
MaxLenSingle == 10   \* longest sequence with one exon over all of it

\* The most exons and the most CDS intervals of well-formed metadata: as many
\* as leave every exon two positions and every CDS interval three.
MaxExons == MaxLen \div 2
MaxCDS == MaxLen \div 3

(***************************************************************************)
(* Python's list and range operations.                                      *)
(***************************************************************************)
\* range(a, b) as a list: a, a+1, ..., b-1; empty when b <= a.
Range(a, b) == [i \in 1..(b - a) |-> a + i - 1]

\* [x] * n: n copies of x; empty when n <= 0.
Repeat(x, n) == [i \in 1..n |-> x]

\* s[:-1]
ButLast(s) == IF Len(s) = 0 THEN s ELSE SubSeq(s, 1, Len(s) - 1)

\* s[1:]
Rest(s) == IF Len(s) = 0 THEN s ELSE Tail(s)

\* [f(x) for x in s], for f = x+1 and f = x-1
Succs(s) == [i \in 1..Len(s) |-> s[i] + 1]
Preds(s) == [i \in 1..Len(s) |-> s[i] - 1]

RECURSIVE SumSeq(_)
SumSeq(s) == IF Len(s) = 0 THEN 0 ELSE s[1] + SumSeq(Tail(s))

(***************************************************************************)
(* A row of a DataFrame with the columns Name, Start, End.  A name such as  *)
(* f'Exon {x+1}' is the pair of its text and its number; 'Upstream' and     *)
(* 'Downstream' carry the number 0.                                         *)
(***************************************************************************)
Row(kind, k, start, end) == [Name |-> <<kind, k>>, Start |-> start, End |-> end]

\* The rows named f'{kind} {x+1}' for x in range(len(starts)).  Python reads
\* ends[x] for each x: a shorter list of ends is an IndexError, which no
\* caller below can produce (the lists are built pairwise).
Rows(kind, starts, ends) ==
    [i \in 1..Len(starts) |-> Row(kind, i, starts[i], ends[i])]

\* r.Name.startswith(kind) and df.Name.str.contains(kind), over the names
\* the two tables use.
StartsWith(r, kind) == r.Name[1] = kind

\* r.End - r.Start + 1
Span(r) == r.End - r.Start + 1

\* df.sort_values('Start').reset_index(drop=True).  pandas sorts with
\* numpy's quicksort, which is not a stable sort: rows with the same Start
\* come out in an order that depends on the build.  SortValues is the set of
\* the orders a sort by Start can give.
RECURSIVE SortedOrders(_, _)
SortedOrders(rows, idx) ==
    IF idx = {} THEN {<<>>}
    ELSE LET first == {i \in idx : \A j \in idx : rows[i].Start <= rows[j].Start}
         IN  UNION {{<<rows[i]>> \o t : t \in SortedOrders(rows, idx \ {i})} : i \in first}

SortValues(rows) == SortedOrders(rows, DOMAIN rows)

(***************************************************************************)
(* Sequence.get_exon_dataframe                                              *)
(***************************************************************************)
ExonRows(d, n) ==
    LET exon_starts == d.ExonStarts
        exon_ends == d.ExonEnds
        intron_starts == Succs(ButLast(exon_ends))
        intron_ends == Preds(Rest(exon_starts))
        upstream_end == exon_starts[1] - 1
        downstream_start == exon_ends[Len(exon_ends)] + 1
    IN  Rows("Exon", exon_starts, exon_ends)
        \o Rows("Intron", intron_starts, intron_ends)
        \o << Row("Upstream", 0, 1, upstream_end),
              Row("Downstream", 0, downstream_start, n) >>

get_exon_dataframe(d, n) == SortValues(ExonRows(d, n))

(***************************************************************************)
(* Sequence.get_atg_pos, get_atg_exon_index, get_stop_pos,                  *)
(* get_stop_exon_index.  The index is 1-based here; 0 stands for the None   *)
(* Python returns when the loop ends without a return.                      *)
(***************************************************************************)
get_atg_pos(d) == d.CDSStarts[1]

get_stop_pos(d) == d.CDSEnds[Len(d.CDSEnds)]

\* The first i in range(ExonCount) with exon_starts[i] <= pos <= exon_ends[i].
ExonIndexOf(d, pos) ==
    LET hits == {i \in 1..d.ExonCount : d.ExonStarts[i] <= pos /\ pos <= d.ExonEnds[i]}
    IN  IF hits = {} THEN 0 ELSE CHOOSE i \in hits : \A j \in hits : i <= j

get_atg_exon_index(d) == ExonIndexOf(d, get_atg_pos(d))

get_stop_exon_index(d) == ExonIndexOf(d, get_stop_pos(d))

(***************************************************************************)
(* Sequence.get_cds_dataframe                                               *)
(***************************************************************************)
\* The loops over range(ExonCount) compare x with the index: `x < None` is a
\* TypeError in Python 3, raised in the first round of the loop.
CdsError(d) ==
    IF get_atg_exon_index(d) = 0 \/ get_stop_exon_index(d) = 0
    THEN "TypeError" ELSE ""

\* 5' UTR exons: the exons before the one holding the start codon, whole, and
\* that exon up to the base before the start codon.
Utr5Starts(d) == SubSeq(d.ExonStarts, 1, get_atg_exon_index(d))

\* Utr5Ends with the last 5' UTR exon ending on the start codon, not before it.
Utr5EndsOnStartCodon(d) ==
    SubSeq(d.ExonEnds, 1, get_atg_exon_index(d) - 1) \o <<get_atg_pos(d)>>

Utr5Ends(d) ==
    SubSeq(d.ExonEnds, 1, get_atg_exon_index(d) - 1) \o <<get_atg_pos(d) - 1>>

\* 3' UTR exons: the exon holding the stop codon from the base after it, and
\* the exons after that one, whole.
Utr3Starts(d) ==
    <<get_stop_pos(d) + 1>>
    \o SubSeq(d.ExonStarts, get_stop_exon_index(d) + 1, d.ExonCount)

Utr3Ends(d) == SubSeq(d.ExonEnds, get_stop_exon_index(d), d.ExonCount)

CdsRows(d, n) ==
    LET cds_starts == d.CDSStarts
        cds_ends == d.CDSEnds
        intron_starts == Succs(ButLast(cds_ends))
        intron_ends == Preds(Rest(cds_starts))
        \* exon_df[exon_df.Name == 'Upstream'].End.values[0], and Downstream's
        \* Start: the same in every order of exon_df.
        upstream_end == d.ExonStarts[1] - 1
        downstream_start == d.ExonEnds[Len(d.ExonEnds)] + 1
        utr5_starts == Utr5Starts(d)
        utr5_ends == Utr5Ends(d)
        utr5_intron_starts == Succs(ButLast(utr5_ends))
        utr5_intron_ends == Preds(Rest(utr5_starts))
        utr3_starts == Utr3Starts(d)
        utr3_ends == Utr3Ends(d)
        utr3_intron_starts == Succs(ButLast(utr3_ends))
        utr3_intron_ends == Preds(Rest(utr3_starts))
    IN  Rows("CDS", cds_starts, cds_ends)
        \o Rows("Intron", intron_starts, intron_ends)
        \o Rows("5' UTR Exon", utr5_starts, utr5_ends)
        \o Rows("5' UTR Intron", utr5_intron_starts, utr5_intron_ends)
        \o Rows("3' UTR Exon", utr3_starts, utr3_ends)
        \o Rows("3' UTR Intron", utr3_intron_starts, utr3_intron_ends)
        \o << Row("Upstream", 0, 1, upstream_end),
              Row("Downstream", 0, downstream_start, n) >>

\* The tables the call can return; none when it raises CdsError.
get_cds_dataframe(d, n) ==
    IF CdsError(d) # "" THEN {} ELSE SortValues(CdsRows(d, n))

(***************************************************************************)
(* Sequence.annotate: the loop over df.iterrows().                          *)
(***************************************************************************)
RECURSIVE Annotations(_)
Annotations(df) ==
    IF Len(df) = 0 THEN <<>>
    ELSE Repeat(df[1].Name, Span(df[1])) \o Annotations(Tail(df))

(***************************************************************************)
(* Sequence.get_utr5_intron_len, get_utr5_exon_len, get_utr3_exon_len: the  *)
(* sum of End - Start + 1 over the rows whose name contains the text.  The  *)
(* sum is the same in every order of the table.                             *)
(***************************************************************************)
KindLen(d, n, kind) ==
    LET rows == CdsRows(d, n)
    IN  SumSeq([i \in 1..Len(rows) |->
                  IF StartsWith(rows[i], kind) THEN Span(rows[i]) ELSE 0])

\* get_utr5_intron_len counting the first 5' UTR intron alone.
get_utr5_intron_len_first(d, n) ==
    LET rows == CdsRows(d, n)
        first == {i \in DOMAIN rows : rows[i].Name = <<"5' UTR Intron", 1>>}
    IN  IF first = {} THEN 0 ELSE Span(rows[CHOOSE i \in first : TRUE])

get_utr5_intron_len(d, n) == KindLen(d, n, "5' UTR Intron")

get_utr5_exon_len(d, n) == KindLen(d, n, "5' UTR Exon")

get_utr3_exon_len(d, n) == KindLen(d, n, "3' UTR Exon")

(***************************************************************************)
(* Sequence.liftover.  An element of cds_pos is an int or a string; the     *)
(* f'c.{x}' of the return statement formats either.  A token is the record  *)
(* of what the string shows: star (the '*' after 'c.'), base (the number),  *)
(* off (the k of '+k'; 0 when the string has no '+k', as every k the code   *)
(* formats is >= 1).  The '.' of the fallback branch is Unknown.            *)
(***************************************************************************)
Plain(x) == [star |-> FALSE, base |-> x, off |-> 0]          \* x
Offset(b, x) == [star |-> FALSE, base |-> b, off |-> x]     \* f'{b}+{x}'
Star(x) == [star |-> TRUE, base |-> x, off |-> 0]            \* f'*{x}'
StarOffset(b, x) == [star |-> TRUE, base |-> b, off |-> x]  \* f'*{b}+{x}'
Unknown == [star |-> FALSE, base |-> 0, off |-> -1]          \* '.'

\* LiftoverStart with the coding counter starting at 0.
LiftoverStartCodingFromZero(d, n) ==
    [cds_pos |-> <<>>,
     cds_sum |-> 0,
     utr5_exon_offset |-> -1 * get_utr5_exon_len(d, n),
     utr3_exon_sum |-> 1]

\* LiftoverStart with the 3' UTR exon counter starting at 0.
LiftoverStartUtr3FromZero(d, n) ==
    [cds_pos |-> <<>>,
     cds_sum |-> 1,
     utr5_exon_offset |-> -1 * get_utr5_exon_len(d, n),
     utr3_exon_sum |-> 0]

\* The state of the loop before its first round.
LiftoverStart(d, n) ==
    [cds_pos |-> <<>>,
     cds_sum |-> 1,
     utr5_exon_offset |-> -1 * get_utr5_exon_len(d, n),
     utr3_exon_sum |-> 1]

\* One round of the loop over cds_df.iterrows(), on row r.
LiftoverRow(d, n, st, r) ==
    LET cds_len == Span(r)
    IN  IF StartsWith(r, "CDS") THEN
            [st EXCEPT !.cds_pos = @ \o [i \in 1..cds_len |-> Plain(st.cds_sum + i - 1)],
                       !.cds_sum = @ + cds_len]
        ELSE IF StartsWith(r, "Intron") THEN
            [st EXCEPT !.cds_pos = @ \o [x \in 1..cds_len |-> Offset(st.cds_sum - 1, x)]]
        ELSE IF r.Name = <<"Upstream", 0>> THEN
            LET a == get_atg_pos(d) - get_utr5_intron_len(d, n)
            IN  [st EXCEPT !.cds_pos = @ \o [x \in 1..r.End |-> Plain(x - a)]]
        ELSE IF StartsWith(r, "5' UTR Exon") THEN
            [st EXCEPT !.cds_pos = @ \o [i \in 1..cds_len |-> Plain(st.utr5_exon_offset + i - 1)],
                       !.utr5_exon_offset = @ + cds_len]
        ELSE IF StartsWith(r, "5' UTR Intron") THEN
            [st EXCEPT !.cds_pos = @ \o [x \in 1..cds_len |-> Offset(st.utr5_exon_offset - 1, x)]]
        ELSE IF r.Name = <<"Downstream", 0>> THEN
            LET a == get_utr3_exon_len(d, n) + 1
            IN  [st EXCEPT !.cds_pos = @ \o [i \in 1..cds_len |-> Star(i - 1 + a)]]
        ELSE IF StartsWith(r, "3' UTR Exon") THEN
            [st EXCEPT !.cds_pos = @ \o [i \in 1..cds_len |-> Star(st.utr3_exon_sum + i - 1)],
                       !.utr3_exon_sum = @ + cds_len]
        ELSE IF StartsWith(r, "3' UTR Intron") THEN
            [st EXCEPT !.cds_pos = @ \o [x \in 1..cds_len |-> StarOffset(st.utr3_exon_sum - 1, x)]]
        ELSE
            [st EXCEPT !.cds_pos = @ \o [x \in 1..cds_len |-> Unknown]]

\* The loop: the rounds on the rows of df from row i on.
RECURSIVE LiftoverLoop(_, _, _, _, _)
LiftoverLoop(d, n, st, df, i) ==
    IF i > Len(df) THEN st
    ELSE LiftoverLoop(d, n, LiftoverRow(d, n, st, df[i]), df, i + 1)

\* cds_pos when the loop over the table df has ended.
CdsPos(d, n, df) == LiftoverLoop(d, n, LiftoverStart(d, n), df, 1).cds_pos

\* LiftoverError raised for too few tokens only.
LiftoverErrorWhenShort(n, cds_pos) ==
    IF Len(cds_pos) < n THEN "ValueError: LiftOver length error" ELSE ""

\* The check after the loop: the ValueError, or none.
LiftoverError(n, cds_pos) ==
    IF Len(cds_pos) # n THEN "ValueError: LiftOver length error" ELSE ""

(***************************************************************************)
(* LookupTable._build_lookup_table.  pd.DataFrame(d) on a dict of columns   *)
(* raises a ValueError unless all columns are of one length; it neither     *)
(* cuts nor pads a column.                                                  *)
(***************************************************************************)
\* list(range(g.data['Start'], g.data['End']+1))
BuildPositions(g) == Range(g.Start, g.End + 1)

ColumnNames ==
    {"Start_Position", "ATG_Position", "Transcript_Position", "GRCh37_Position",
     "GRCh38_Position", "Allele", "Exon_Annotation", "CDS_Annotation"}

DataFrameError(cols) ==
    IF \E a, b \in DOMAIN cols : Len(cols[a]) # Len(cols[b])
    THEN "ValueError: All arrays must be of the same length" ELSE ""

\* LookupColumns with each build's positions cut to the length of ng.seq.
LookupColumnsCut(d, n, g7, g8, ng_pos3, annot1, annot2) ==
    LET ng_pos1 == Range(1, n + 1)
        Cut(s) == SubSeq(s, 1, IF Len(s) < n THEN Len(s) ELSE n)
    IN  [Start_Position |-> ng_pos1,
         ATG_Position |-> [i \in 1..Len(ng_pos1) |-> ng_pos1[i] - d.CDSStarts[1]],
         Transcript_Position |-> ng_pos3,
         GRCh37_Position |-> Cut(BuildPositions(g7)),
         GRCh38_Position |-> Cut(BuildPositions(g8)),
         Allele |-> Repeat("N", n),
         Exon_Annotation |-> annot1,
         CDS_Annotation |-> annot2]

\* The dict d of the columns, from the three calls on ng and the two ranges.
\* The bases of ng.seq are not modelled: Allele is a column of len(ng.seq)
\* bases, each written "N".
LookupColumns(d, n, g7, g8, ng_pos3, annot1, annot2) ==
    LET ng_pos1 == Range(1, n + 1)
    IN  [Start_Position |-> ng_pos1,
         ATG_Position |-> [i \in 1..Len(ng_pos1) |-> ng_pos1[i] - d.CDSStarts[1]],
         Transcript_Position |-> ng_pos3,
         GRCh37_Position |-> BuildPositions(g7),
         GRCh38_Position |-> BuildPositions(g8),
         Allele |-> Repeat("N", n),
         Exon_Annotation |-> annot1,
         CDS_Annotation |-> annot2]

(***************************************************************************)
(* The metadata a Sequence is built from.  An interval list is a sequence   *)
(* of <<start, end>> pairs; the JSON file gives the starts and the ends as  *)
(* two arrays and the number of exons as ExonCount.  The code validates     *)
(* none of it: WellFormed is the condition the properties below assume of   *)
(* it, and Chains and Lists are the metadata the model is run on.           *)
(***************************************************************************)
Starts(ivs) == [i \in 1..Len(ivs) |-> ivs[i][1]]

Ends(ivs) == [i \in 1..Len(ivs) |-> ivs[i][2]]

Metadata(exons, cds) ==
    [ExonCount |-> Len(exons),
     ExonStarts |-> Starts(exons), ExonEnds |-> Ends(exons),
     CDSStarts |-> Starts(cds), CDSEnds |-> Ends(cds)]

\* Well-formed metadata: the arrays ascending and non-overlapping, each end
\* >= its start, every position within 1..n, every CDS interval inside an exon.
Ordered(starts, ends, n) ==
    /\ Len(starts) = Len(ends)
    /\ Len(starts) >= 1
    /\ \A i \in 1..Len(starts) : 1 <= starts[i] /\ starts[i] <= ends[i] /\ ends[i] <= n
    /\ \A i \in 1..(Len(starts) - 1) : ends[i] < starts[i + 1]

WellFormed(d, n) ==
    /\ d.ExonCount = Len(d.ExonStarts)
    /\ Ordered(d.ExonStarts, d.ExonEnds, n)
    /\ Ordered(d.CDSStarts, d.CDSEnds, n)
    /\ \A c \in 1..Len(d.CDSStarts) : \E x \in 1..d.ExonCount :
          d.ExonStarts[x] <= d.CDSStarts[c] /\ d.CDSEnds[c] <= d.ExonEnds[x]

\* The intervals <<s, e>> with lo <= s <= e <= hi.
Intervals(lo, hi) == {p \in (lo..hi) \X (lo..hi) : p[1] <= p[2]}

\* The ascending, non-overlapping lists of at most k intervals within lo..hi.
RECURSIVE Chains(_, _, _)
Chains(lo, hi, k) ==
    IF k = 0 THEN {<<>>}
    ELSE {<<>>} \cup UNION {{<<p>> \o t : t \in Chains(p[2] + 1, hi, k - 1)} : p \in Intervals(lo, hi)}

\* The lists of 1 to k intervals within lo..hi, in any order, overlapping or not.
RECURSIVE Lists(_, _, _)
Lists(lo, hi, k) ==
    IF k = 1 THEN {<<p>> : p \in Intervals(lo, hi)}
    ELSE Lists(lo, hi, k - 1)
         \cup {<<p>> \o t : p \in Intervals(lo, hi), t \in {u \in Lists(lo, hi, k - 1) : Len(u) = k - 1}}

Returned(df, out) == [err |-> "", msg |-> <<>>, df |-> df, out |-> out]

Raised(err, msg) == [err |-> err, msg |-> msg, df |-> <<>>, out |-> <<>>]

(***************************************************************************)
(* Construction: Sequence(fasta_file, json_file).  Nothing in __init__      *)
(* looks at the metadata.                                                   *)
(***************************************************************************)
New(n, exons, cds) ==
    /\ len = n
    /\ data = Metadata(exons, cds)
    /\ op = "new"
    /\ args = <<>>
    /\ result = Returned(<<>>, <<>>)

\* A sequence with well-formed metadata.
Init ==
    \E n \in 1..MaxLen :
        \E exons \in Chains(1, n, MaxExons) \ {<<>>}, cds \in Chains(1, n, MaxCDS) \ {<<>>} :
            /\ WellFormed(Metadata(exons, cds), n)
            /\ New(n, exons, cds)

\* A sequence with any metadata of one CDS interval and one or two exons,
\* each with its end >= its start, on the positions 1..n+1: the exons may
\* overlap or be out of order, an end may lie past the sequence, the CDS may
\* lie outside the exons.
InitAny ==
    \E n \in 1..MaxLenAny :
        \E exons \in Lists(1, n + 1, 2), cds \in Lists(1, n + 1, 1) :
            New(n, exons, cds)

\* A sequence with one exon over all of it and one CDS interval.
InitSingle ==
    \E n \in 1..MaxLenSingle :
        \E cds \in Intervals(1, n) : New(n, <<<<1, n>>>>, <<cds>>)

(***************************************************************************)
(* The calls.  A call is made when no result is held.                       *)
(***************************************************************************)
GetExonDataframe ==
    /\ op = "new"
    /\ \E df \in get_exon_dataframe(data, len) :
          result' = Returned(df, <<>>)
    /\ op' = "get_exon_dataframe"
    /\ args' = <<>>
    /\ UNCHANGED <<len, data>>

GetCdsDataframe ==
    /\ op = "new"
    /\ IF CdsError(data) # ""
       THEN result' = Raised(CdsError(data), <<>>)
       ELSE \E df \in get_cds_dataframe(data, len) :
               result' = Returned(df, <<>>)
    /\ op' = "get_cds_dataframe"
    /\ args' = <<>>
    /\ UNCHANGED <<len, data>>

\* annotate(cds): the table, then the loop over its rows.  The caller gets
\* the labels, in one of the orders the sort can give the rows.
Annotate ==
    /\ op = "new"
    /\ \E cds \in BOOLEAN :
          /\ args' = <<cds>>
          /\ IF cds /\ CdsError(data) # ""
             THEN result' = Raised(CdsError(data), <<>>)
             ELSE \E annotations \in
                        {Annotations(df) : df \in (IF cds THEN get_cds_dataframe(data, len)
                                                          ELSE get_exon_dataframe(data, len))} :
                     result' = Returned(<<>>, annotations)
    /\ op' = "annotate"
    /\ UNCHANGED <<len, data>>

\* What liftover() does once it has the table df: the loop, then the check.
LiftoverResult(d, n, df) ==
    LET cds_pos == CdsPos(d, n, df)
    IN  IF LiftoverError(n, cds_pos) # ""
        THEN Raised(LiftoverError(n, cds_pos), <<n, Len(cds_pos)>>)
        ELSE Returned(<<>>, cds_pos)

Liftover ==
    /\ op = "new"
    /\ IF CdsError(data) # ""
       THEN result' = Raised(CdsError(data), <<>>)
       ELSE \E lifted \in {LiftoverResult(data, len, df) : df \in get_cds_dataframe(data, len)} :
               result' = lifted
    /\ op' = "liftover"
    /\ args' = <<>>
    /\ UNCHANGED <<len, data>>

\* What _build_lookup_table does with the three columns computed from ng.
LookupResult(d, n, g7, g8, lifted, annot1, annot2) ==
    IF lifted.err # "" THEN lifted
    ELSE LET cols == LookupColumns(d, n, g7, g8, lifted.out, annot1, annot2)
         IN  IF DataFrameError(cols) # ""
             THEN Raised(DataFrameError(cols), <<>>)
             ELSE Returned(cols, <<>>)

\* The ranges a build may give for a sequence of n bases: one position short,
\* as long as the sequence, one position long.
BuildRanges(n) == {[Start |-> 1, End |-> e] : e \in (n - 1)..(n + 1)}

\* LookupTable(ng, g7, g8) with this sequence as ng.  liftover() and
\* annotate(cds=True) sort the same CDS table: the sort being a function of
\* its input, both see the rows in the same order.
BuildLookupTable ==
    /\ op = "new"
    /\ IF CdsError(data) # ""
       THEN \E g7 \in BuildRanges(len), g8 \in BuildRanges(len) :
               /\ args' = <<g7, g8>>
               /\ result' = Raised(CdsError(data), <<>>)
       ELSE \E from_cds \in {<<LiftoverResult(data, len, df), Annotations(df)>> :
                                df \in get_cds_dataframe(data, len)},
               annot1 \in {Annotations(df) : df \in get_exon_dataframe(data, len)} :
              \E g7 \in BuildRanges(len), g8 \in BuildRanges(len) :
                 /\ args' = <<g7, g8>>
                 /\ result' = LookupResult(data, len, g7, g8, from_cds[1], annot1, from_cds[2])
    /\ op' = "LookupTable"
    /\ UNCHANGED <<len, data>>

\* The caller drops the result.
Drop ==
    /\ op # "new"
    /\ op' = "new"
    /\ args' = <<>>
    /\ result' = Returned(<<>>, <<>>)
    /\ UNCHANGED <<len, data>>

\* The methods of Sequence.
Next ==
    \/ GetExonDataframe
    \/ GetCdsDataframe
    \/ Annotate
    \/ Liftover
    \/ Drop

\* The methods of Sequence and the construction of a LookupTable.
NextAny ==
    \/ GetExonDataframe
    \/ GetCdsDataframe
    \/ Annotate
    \/ Liftover
    \/ BuildLookupTable
    \/ Drop

\* Well-formed metadata.
Spec == Init /\ [][Next]_vars

\* Unvalidated metadata.
SpecAny == InitAny /\ [][NextAny]_vars

\* One exon over the whole sequence.
SpecSingle == InitSingle /\ [][Next]_vars

(***************************************************************************)
(* What the properties below speak of, said of the metadata alone and not   *)
(* computed the way the code computes it.                                   *)
(***************************************************************************)
\* Position p lies in one of the intervals starts[i]..ends[i].
Inside(starts, ends, p) ==
    \E i \in 1..Len(starts) : starts[i] <= p /\ p <= ends[i]

InExon(p) == Inside(data.ExonStarts, data.ExonEnds, p)

InCDS(p) == Inside(data.CDSStarts, data.CDSEnds, p)

\* The rows of df that hold position p.
Holding(df, p) == {i \in DOMAIN df : df[i].Start <= p /\ p <= df[i].End}

\* df tiles 1..n: every position is in exactly one row, no row reaches
\* outside 1..n or is inverted, and the spans add up to n.
Tiles(df, n) ==
    /\ \A p \in 1..n : Cardinality(Holding(df, p)) = 1
    /\ \A i \in DOMAIN df : Span(df[i]) >= 0
    /\ \A i \in DOMAIN df : Span(df[i]) > 0 => 1 <= df[i].Start /\ df[i].End <= n
    /\ SumSeq([i \in DOMAIN df |-> Span(df[i])]) = n

\* The number of CDS positions up to p, and of exon positions before the
\* start codon.
CodingUpTo(p) == Cardinality({q \in 1..p : InCDS(q)})

Utr5ExonLen == Cardinality({q \in 1..(get_atg_pos(data) - 1) : InExon(q)})

IsPlain(t) == ~t.star /\ t.off = 0

HasOffset(t) == t.off >= 1

Called(name) == op = name

ReturnedFrom(name) == op = name /\ result.err = ""

LengthError == "ValueError: LiftOver length error"

(***************************************************************************)
(* C1.  For well-formed metadata the table get_exon_dataframe returns and   *)
(* the table get_cds_dataframe returns each cover every position of         *)
(* 1..seq_length exactly once, and their spans add up to seq_length.        *)
(***************************************************************************)
C1_PartitionTotality ==
    (WellFormed(data, len) /\ (Called("get_exon_dataframe") \/ Called("get_cds_dataframe")))
        => result.err = "" /\ Tiles(result.df, len)

\* A CDS table with a 5' UTR intron and a CDS intron, each of at least one
\* base.
C1_Witness ==
    /\ WellFormed(data, len)
    /\ ReturnedFrom("get_cds_dataframe")
    /\ \A kind \in {"5' UTR Intron", "Intron"} :
          \E i \in DOMAIN result.df :
              StartsWith(result.df[i], kind) /\ Span(result.df[i]) >= 1

(***************************************************************************)
(* C2, as stated.  liftover either returns exactly seq_length tokens or     *)
(* raises the length-mismatch error with the expected and the generated     *)
(* length, for every input; for well-formed metadata it returns.            *)
(***************************************************************************)
ReturnsAllTokens == result.err = "" /\ Len(result.out) = len

RaisesLengthMismatch ==
    /\ result.err = LengthError
    /\ Len(result.msg) = 2
    /\ result.msg[1] = len
    /\ result.msg[2] # len

C2_AsStated ==
    Called("liftover") =>
        /\ ReturnsAllTokens \/ RaisesLengthMismatch
        /\ WellFormed(data, len) => ReturnsAllTokens

(***************************************************************************)
(* C2, amended.  liftover never returns a token sequence whose length       *)
(* differs from seq_length: it returns exactly seq_length tokens, or raises *)
(* the length-mismatch error with the expected and the generated length,    *)
(* or fails while the CDS table is built, with a TypeError, when the start  *)
(* codon or the stop codon lies in no exon; for well-formed metadata it     *)
(* returns.                                                                 *)
(***************************************************************************)
FailsBuildingCdsTable ==
    /\ result.err = "TypeError"
    /\ ~InExon(get_atg_pos(data)) \/ ~InExon(get_stop_pos(data))

C2_LiftoverLength ==
    Called("liftover") =>
        /\ ReturnsAllTokens \/ RaisesLengthMismatch \/ FailsBuildingCdsTable
        /\ WellFormed(data, len) => ReturnsAllTokens

\* The length-mismatch error raised: both codons lie in exons, and the table
\* does not generate seq_length tokens.
C2_Witness ==
    /\ Called("liftover")
    /\ RaisesLengthMismatch
    /\ InExon(get_atg_pos(data)) /\ InExon(get_stop_pos(data))

(***************************************************************************)
(* C3.  With one exon 1..L and one CDS a..b, liftover gives position p the  *)
(* token c.(p - a) when p < a, c.(p - a + 1) when a <= p <= b and           *)
(* c.*(p - b) when p > b.                                                   *)
(***************************************************************************)
SingleExonToken(p, a, b) ==
    IF p < a THEN Plain(p - a)
    ELSE IF p <= b THEN Plain(p - a + 1)
    ELSE Star(p - b)

C3_SingleExon ==
    (Called("liftover") /\ data.ExonStarts = <<1>> /\ data.ExonEnds = <<len>>
                        /\ Len(data.CDSStarts) = 1)
        => /\ ReturnsAllTokens
           /\ \A p \in 1..len :
                 result.out[p] = SingleExonToken(p, data.CDSStarts[1], data.CDSEnds[1])

\* The example: L = 10, a = 4, b = 7 gives
\* c.-3, c.-2, c.-1, c.1, c.2, c.3, c.4, c.*1, c.*2, c.*3.
C3_Witness ==
    /\ ReturnedFrom("liftover")
    /\ len = 10
    /\ data = Metadata(<< <<1, 10>> >>, << <<4, 7>> >>)
    /\ result.out = << Plain(-3), Plain(-2), Plain(-1), Plain(1), Plain(2),
                       Plain(3), Plain(4), Star(1), Star(2), Star(3) >>

(***************************************************************************)
(* C4.  For well-formed metadata the plain coding tokens of liftover, in    *)
(* position order, are 1, 2, ..., N with N the total CDS length: the token  *)
(* of a CDS position is the number of CDS positions up to it, whatever the  *)
(* introns between the CDS intervals, and no other position gets a plain    *)
(* token >= 1.                                                              *)
(***************************************************************************)
C4_CodingNumbers ==
    (WellFormed(data, len) /\ Called("liftover")) =>
        /\ ReturnsAllTokens
        /\ \A p \in 1..len :
              IF InCDS(p) THEN result.out[p] = Plain(CodingUpTo(p))
              ELSE ~(IsPlain(result.out[p]) /\ result.out[p].base >= 1)

\* Two CDS intervals with an intron of two bases or more between them.
C4_Witness ==
    /\ WellFormed(data, len)
    /\ ReturnedFrom("liftover")
    /\ Len(data.CDSStarts) = 2
    /\ data.CDSStarts[2] - data.CDSEnds[1] >= 3
    /\ result.out[data.CDSStarts[2]] = Plain(CodingUpTo(data.CDSEnds[1]) + 1)

(***************************************************************************)
(* C5.  Building a LookupTable with a GRCh37 or GRCh38 range whose length   *)
(* (End - Start + 1) differs from the length of the reference sequence ends *)
(* in an error; a table that is built holds each range whole, every column  *)
(* as long as the sequence.                                                 *)
(***************************************************************************)
RangeLen(g) == g.End - g.Start + 1

C5_LookupMismatch ==
    Called("LookupTable") =>
        /\ (RangeLen(args[1]) # len \/ RangeLen(args[2]) # len) => result.err # ""
        /\ result.err = "" =>
              /\ \A c \in ColumnNames : Len(result.df[c]) = len
              /\ result.df.GRCh37_Position = BuildPositions(args[1])
              /\ result.df.GRCh38_Position = BuildPositions(args[2])

\* A range one position long on a sequence whose three columns were computed:
\* the error is the one of the DataFrame's construction.
C5_Witness ==
    /\ Called("LookupTable")
    /\ RangeLen(args[1]) = len + 1
    /\ RangeLen(args[2]) = len
    /\ result.err = "ValueError: All arrays must be of the same length"

(***************************************************************************)
(* C6, as stated.  When the exon or the CDS table does not tile             *)
(* 1..seq_length, its construction fails with an error: no table that does  *)
(* not tile is returned, and annotate returns no labels computed from one.  *)
(***************************************************************************)
C6_AsStated ==
    /\ ReturnedFrom("get_exon_dataframe") => Tiles(result.df, len)
    /\ ReturnedFrom("get_cds_dataframe") => Tiles(result.df, len)
    /\ ReturnedFrom("annotate") =>
          Tiles(IF args[1] THEN CdsRows(data, len) ELSE ExonRows(data, len), len)

(***************************************************************************)
(* C7, as stated.  annotate always returns seq_length labels, the label at  *)
(* position p being the name of the interval of the table that holds p.     *)
(***************************************************************************)
C7_AsStated ==
    Called("annotate") =>
        /\ result.err = ""
        /\ Len(result.out) = len
        /\ LET rows == IF args[1] THEN CdsRows(data, len) ELSE ExonRows(data, len)
           IN  \A p \in 1..len :
                  \E i \in Holding(rows, p) : result.out[p] = rows[i].Name

(***************************************************************************)
(* C8.  For well-formed metadata the Upstream tokens of liftover go up by   *)
(* one per base and the last of them, at the position before the first      *)
(* exon, is -(total 5' UTR exon length) - 1: one less than the token of the *)
(* first 5' UTR exon base, whatever the number and the lengths of the       *)
(* 5' UTR introns.                                                          *)
(***************************************************************************)
C8_UpstreamContinuity ==
    (WellFormed(data, len) /\ Called("liftover")) =>
        /\ ReturnsAllTokens
        /\ \A p \in 1..(data.ExonStarts[1] - 1) :
              result.out[p] = Plain(p - data.ExonStarts[1] - Utr5ExonLen)
        /\ Utr5ExonLen >= 1 => result.out[data.ExonStarts[1]] = Plain(-Utr5ExonLen)

\* Two 5' UTR introns of at least one base each after a non-empty Upstream.
C8_Witness ==
    /\ WellFormed(data, len)
    /\ ReturnedFrom("liftover")
    /\ data.ExonStarts[1] >= 2
    /\ \E p, q \in 1..(get_atg_pos(data) - 1) :
          /\ HasOffset(result.out[p]) /\ HasOffset(result.out[q])
          /\ result.out[p].base # result.out[q].base
    /\ result.out[data.ExonStarts[1] - 1] = Plain(-Utr5ExonLen - 1)

(***************************************************************************)
(* C9, as stated.  For well-formed metadata every interval of the exon      *)
(* table and of the CDS table has 1 <= Start <= End <= seq_length, and the  *)
(* CDS table has no "5' UTR Exon" interval when there is no 5' UTR base.    *)
(***************************************************************************)
C9_AsStated ==
    (WellFormed(data, len)
        /\ (ReturnedFrom("get_exon_dataframe") \/ ReturnedFrom("get_cds_dataframe")))
    => /\ \A i \in DOMAIN result.df :
             /\ 1 <= result.df[i].Start
             /\ result.df[i].Start <= result.df[i].End
             /\ result.df[i].End <= len
       /\ (Called("get_cds_dataframe") /\ Utr5ExonLen = 0) =>
             \A i \in DOMAIN result.df : ~StartsWith(result.df[i], "5' UTR Exon")

(***************************************************************************)
(* C10, as stated.  For well-formed metadata the base of every              *)
(* intron-offset token of liftover is the number of the exon base right     *)
(* before the intron: the token k positions into an intron has the base,    *)
(* and the '*', of the token k positions before it, which is no             *)
(* intron-offset token; and no base is 0.                                   *)
(***************************************************************************)
C10_AsStated ==
    (WellFormed(data, len) /\ ReturnedFrom("liftover")) =>
        \A p \in 1..len :
            HasOffset(result.out[p]) =>
                /\ result.out[p].base # 0
                /\ p - result.out[p].off >= 1
                /\ LET before == result.out[p - result.out[p].off]
                   IN  /\ before.off = 0
                       /\ before.star = result.out[p].star
                       /\ before.base = result.out[p].base

====
